---- MODULE Spec2Model ----
(***************************************************************************)
(* Account state objects (core/state/state_object.go) and the delegation   *)
(* transaction (DelegateData.Run) of minter-go-node, as a state machine.   *)
(*                                                                         *)
(* Go maps are reference values: every map lives in `heap` and an Account  *)
(* holds the index of its map (0 is the nil map).  A *big.Int is never     *)
(* modified in place by the state object (SetBalance stores a new one), so *)
(* amounts are plain integers.                                             *)
(***************************************************************************)
EXTENDS Integers, Sequences, FiniteSets, TLC

\* ------------------------------------------------------------------ bounds
MaxAmount == 1      \* largest amount given to, or held after, a direct balance call
MaxNonce == 1       \* largest nonce given to SetNonce or carried by a transaction
MaxObjects == 2     \* state objects alive at once (the original and its deep copies)
MaxStake == 2       \* largest stake of a delegation payload
MaxGasPrice == 2    \* largest gas price of a transaction
InitBalance == 4    \* what the account holds of every existing coin at genesis
MaxWireAmount == 2  \* largest amount of a Balances map or of an encoded pair
MaxStreamLen == 3   \* most pairs of a stream handed to DecodeRLP

\* ------------------------------------------------------------ coin symbols
\* types.CoinSymbol is a fixed-width byte array; two bytes stand for the ten.
BaseCoin == <<0, 1>>
CustomCoin == <<1, 0>>
UnknownCoin == <<1, 1>>
CoinSymbols == {BaseCoin, CustomCoin, UnknownCoin}

PubKeys == {"pk1", "pk2"}

VARIABLES
    objs,           \* Seq of stateObject
    heap,           \* Seq of map[CoinSymbol]*big.Int, as functions on the keys present
    dirtyCalls,     \* per callback (one per object), how often it has been invoked
    created,        \* per object, what it was constructed from and with
    stateObjects,   \* StateDB: address -> index of its state object in objs
    stateCoins,     \* StateDB: coin symbol -> [Volume, ReserveBalance, Crr]
    candidates,     \* StateDB: registered candidate public keys
    delegations,    \* StateDB: <<owner, pubkey, coin>> -> delegated total
    rewardPool,     \* the *big.Int the block's commissions are added to
    last,           \* the call the caller has the response of: operation, object, response
    wire,           \* the encoded stream last written by an encoder or handed to a decoder
    out,            \* what the last codec or signature call returned: [value, err]
    check           \* the *Check DecodeFromBytes returned last (<<>> is nil)

vars == <<objs, heap, dirtyCalls, created, stateObjects, stateCoins, candidates,
          delegations, rewardPool, last, wire, out, check>>

\* The streams and results of the codecs, which the state calls leave alone
ioVars == <<wire, out, check>>

dbVars == <<stateObjects, stateCoins, candidates, delegations, rewardPool>>

\* ---------------------------------------------------------- state objects
\* The part of the state a stateObject method reads and writes, threaded
\* through the methods below; `events` collects the method's effects in order.
World == [objs |-> objs, heap |-> heap, dirtyCalls |-> dirtyCalls, events |-> <<>>]

\* The zero Account: nonce 0, nil balance map.
ZeroAccount == [Nonce |-> 0, Balance |-> 0]

emptyWhenUnused(w, id) ==
    LET ref == w.objs[id].data.Balance IN
    /\ w.objs[id].data.Nonce = 0
    /\ ref = 0 \/ \A c \in DOMAIN w.heap[ref] : w.heap[ref][c] = 0

\* func (s *stateObject) empty() bool
empty(w, id) == FALSE

\* if onDirty != nil { onDirty(Address()); onDirty = nil }
notifyDirty(w, id) ==
    LET cb == w.objs[id].onDirty IN
    IF cb # 0
    THEN [w EXCEPT !.dirtyCalls[cb] = @ + 1,
                   !.objs[id].onDirty = 0,
                   !.events = Append(@, <<"dirty", w.objs[id].address>>)]
    ELSE w

\* make(map[types.CoinSymbol]*big.Int): a new, empty map on the heap
makeMap(w) == [w EXCEPT !.heap = Append(@, <<>>)]

\* newObject: data is passed by value, so the nonce is copied and the balance
\* map (a reference) is shared with whoever else holds data.Balance.Data.
newObject(w, address, data, onDirty) ==
    LET w1 == IF data.Balance = 0 THEN makeMap(w) ELSE w
        ref == IF data.Balance = 0 THEN Len(w1.heap) ELSE data.Balance
        id == Len(w.objs) + 1
    IN [w1 EXCEPT !.objs = Append(@, [address |-> address,
                                       data |-> [Nonce |-> data.Nonce, Balance |-> ref],
                                       suicided |-> FALSE,
                                       touched |-> FALSE,
                                       deleted |-> FALSE,
                                       onDirty |-> onDirty]),
                  !.dirtyCalls = Append(@, 0)]

markSuicided(w, id) ==
    notifyDirty([w EXCEPT !.objs[id].suicided = TRUE], id)

touchKeepingCallback(w, id) ==
    LET cb == w.objs[id].onDirty
        w1 == IF cb # 0
              THEN [w EXCEPT !.dirtyCalls[cb] = @ + 1,
                             !.events = Append(@, <<"dirty", w.objs[id].address>>)]
              ELSE w
    IN [w1 EXCEPT !.objs[id].touched = TRUE]

touch(w, id) ==
    LET w1 == notifyDirty(w, id) IN [w1 EXCEPT !.objs[id].touched = TRUE]

\* func (self *stateObject) Balance(coinSymbol) *big.Int
Balance(w, id, coinSymbol) ==
    LET ref == w.objs[id].data.Balance IN
    IF ref = 0 THEN 0
    ELSE IF coinSymbol \notin DOMAIN w.heap[ref] THEN 0
    ELSE w.heap[ref][coinSymbol]

\* m[coinSymbol] = amount on a Go map
mapSet(m, coinSymbol, amount) ==
    [c \in (DOMAIN m) \cup {coinSymbol} |-> IF c = coinSymbol THEN amount ELSE m[c]]

setBalance(w, id, coinSymbol, amount) ==
    LET w1 == IF w.objs[id].data.Balance = 0
              THEN [makeMap(w) EXCEPT !.objs[id].data.Balance = Len(w.heap) + 1]
              ELSE w
        ref == w1.objs[id].data.Balance
        w2 == [w1 EXCEPT !.heap[ref] = mapSet(@, coinSymbol, amount),
                         !.events = Append(@, <<"write", coinSymbol, amount>>)]
    IN notifyDirty(w2, id)

\* EmitBalanceChange(address, coinSymbol, amount)
EmitBalanceChange(w, address, coinSymbol, amount) ==
    [w EXCEPT !.events = Append(@, <<"emit", address, coinSymbol, amount>>)]

SetBalanceEmittingAfterWrite(w, id, coinSymbol, amount) ==
    EmitBalanceChange(setBalance(w, id, coinSymbol, amount),
                      w.objs[id].address, coinSymbol, amount)

SetBalance(w, id, coinSymbol, amount) ==
    setBalance(EmitBalanceChange(w, w.objs[id].address, coinSymbol, amount),
               id, coinSymbol, amount)

AddBalance(w, id, coinSymbol, amount) ==
    IF amount = 0
    THEN IF empty(w, id) THEN touch(w, id) ELSE w
    ELSE SetBalance(w, id, coinSymbol, Balance(w, id, coinSymbol) + amount)

SubBalance(w, id, coinSymbol, amount) ==
    IF amount = 0
    THEN w
    ELSE SetBalance(w, id, coinSymbol, Balance(w, id, coinSymbol) - amount)

setNonce(w, id, nonce) ==
    notifyDirty([w EXCEPT !.objs[id].data.Nonce = nonce], id)

SetNonce(w, id, nonce) == setNonce(w, id, nonce)

\* deepCopy: newObject(db, self.address, self.data, onDirty), then the flags.
\* The new object is the last of objs; its callback is a fresh one.
deepCopy(w, id, onDirty) ==
    LET w1 == newObject(w, w.objs[id].address, w.objs[id].data, onDirty)
        new == Len(w1.objs)
    IN [w1 EXCEPT !.objs[new].suicided = w.objs[id].suicided,
                  !.objs[new].deleted = w.objs[id].deleted]

\* ------------------------------------------------------------- the StateDB
\* What DelegateData.Run reads and writes through (context, rewardPool).
Ctx == [w |-> World, delegations |-> delegations, rewardPool |-> rewardPool]

\* types.GetBaseCoin()
GetBaseCoin == BaseCoin

\* StateDB.CoinExists: the base coin always exists, another coin when it is stored
CoinExists(symbol) == symbol = GetBaseCoin \/ symbol \in DOMAIN stateCoins

\* StateDB.GetStateCoin
GetStateCoin(symbol) == stateCoins[symbol]

\* StateDB.CandidateExists
CandidateExists(pubkey) == pubkey \in candidates

\* StateDB.GetBalance: the balance of the address's state object, zero without one
StateDB_GetBalance(ctx, addr, coinSymbol) ==
    IF addr \in DOMAIN stateObjects
    THEN Balance(ctx.w, stateObjects[addr], coinSymbol)
    ELSE 0

\* StateDB.SubBalance: SubBalance on the address's state object
StateDB_SubBalance(ctx, addr, coinSymbol, amount) ==
    [ctx EXCEPT !.w = SubBalance(@, stateObjects[addr], coinSymbol, amount)]

\* StateDB.SetNonce: SetNonce on the address's state object
StateDB_SetNonce(ctx, addr, nonce) ==
    [ctx EXCEPT !.w = SetNonce(@, stateObjects[addr], nonce)]

\* StateDB.Delegate: the stake is added to what the owner has delegated to the
\* candidate in that coin
Delegate(ctx, sender, pubkey, coinSymbol, stake) ==
    IF <<sender, pubkey, coinSymbol>> \in DOMAIN ctx.delegations
    THEN [ctx EXCEPT !.delegations[<<sender, pubkey, coinSymbol>>] = @ + stake]
    ELSE ctx

\* formula.CalculateSaleAmount for a coin of reserve ratio 100: the coins to
\* sell for wantReceive of reserve, supply * wantReceive / reserve rounded down
CalculateSaleAmount(supply, reserve, crr, wantReceive) ==
    IF wantReceive = 0 THEN 0 ELSE (wantReceive * supply) \div reserve

\* ------------------------------------------------------- DelegateData.Run
\* Gas units are scaled: commissions.DelegateTx and CommissionMultiplier are
\* set outside the files at hand; small values stand for them.
DelegateTx == 2
CommissionMultiplier == 1

Gas(data) == DelegateTx

\* Transaction.Gas(): the gas of the decoded payload
TxGas(tx, data) == Gas(data)

OK == "OK"
Response(code, log) == [Code |-> code, GasUsed |-> 0, GasWanted |-> 0, Log |-> log]

\* commissionInBaseCoin := GasPrice * Gas() * CommissionMultiplier
CommissionInBaseCoin(tx, data) ==
    (tx.GasPrice * TxGas(tx, data)) * CommissionMultiplier

\* the reserve check, made for a gas coin other than the base coin
ReserveSufficient(tx, data) ==
    tx.GasCoin # GetBaseCoin =>
        ~(GetStateCoin(tx.GasCoin).ReserveBalance < CommissionInBaseCoin(tx, data))

\* commission: the base-coin commission, converted when the gas coin is not the base coin
Commission(tx, data) ==
    IF tx.GasCoin # GetBaseCoin
    THEN LET coin == GetStateCoin(tx.GasCoin) IN
         CalculateSaleAmount(coin.Volume, coin.ReserveBalance, coin.Crr,
                             CommissionInBaseCoin(tx, data))
    ELSE CommissionInBaseCoin(tx, data)

StakeNotNegative(data) == ~(data.Stake < 0)

\* data.Stake.Cmp(types.Big0) < 1 is the failure
StakePositive(data) == ~(data.Stake < 1)

CommissionCovered(ctx, sender, tx, data) ==
    ~(StateDB_GetBalance(ctx, sender, tx.GasCoin) < Commission(tx, data))

StakeCoveredByGasCoin(ctx, sender, tx, data) ==
    ~(StateDB_GetBalance(ctx, sender, tx.GasCoin) < data.Stake)

StakeCovered(ctx, sender, tx, data) ==
    ~(StateDB_GetBalance(ctx, sender, data.Coin) < data.Stake)

TotalNotChecked(ctx, sender, tx, data) == TRUE

\* if data.Coin == tx.GasCoin: the balance covers stake + commission
TotalCovered(ctx, sender, tx, data) ==
    data.Coin = tx.GasCoin =>
        LET totalTxCost == (0 + data.Stake) + Commission(tx, data) IN
        ~(StateDB_GetBalance(ctx, sender, tx.GasCoin) < totalTxCost)

ValidateCandidateFirst(ctx, sender, tx, data) ==
    IF ~CandidateExists(data.PubKey)
    THEN Response("CandidateNotFound", "Candidate not found")
    ELSE IF ~CoinExists(tx.GasCoin)
    THEN Response("CoinNotExists", "Coin not exists")
    ELSE IF ~StakePositive(data)
    THEN Response("StakeShouldBePositive", "Stake should be positive")
    ELSE IF ~ReserveSufficient(tx, data)
    THEN Response("CoinReserveNotSufficient", "Coin reserve balance is not sufficient")
    ELSE IF ~CommissionCovered(ctx, sender, tx, data)
    THEN Response("InsufficientFunds", "Wanted commission")
    ELSE IF ~StakeCovered(ctx, sender, tx, data)
    THEN Response("InsufficientFunds", "Wanted stake")
    ELSE IF ~TotalCovered(ctx, sender, tx, data)
    THEN Response("InsufficientFunds", "Wanted totalTxCost")
    ELSE [Code |-> OK, GasUsed |-> TxGas(tx, data), GasWanted |-> TxGas(tx, data),
          Log |-> ""]

\* The validations of Run in their order; the Log is the message's kind.
Validate(ctx, sender, tx, data) ==
    IF ~CoinExists(tx.GasCoin)
    THEN Response("CoinNotExists", "Coin not exists")
    ELSE IF ~StakePositive(data)
    THEN Response("StakeShouldBePositive", "Stake should be positive")
    ELSE IF ~ReserveSufficient(tx, data)
    THEN Response("CoinReserveNotSufficient", "Coin reserve balance is not sufficient")
    ELSE IF ~CommissionCovered(ctx, sender, tx, data)
    THEN Response("InsufficientFunds", "Wanted commission")
    ELSE IF ~StakeCovered(ctx, sender, tx, data)
    THEN Response("InsufficientFunds", "Wanted stake")
    ELSE IF ~TotalCovered(ctx, sender, tx, data)
    THEN Response("InsufficientFunds", "Wanted totalTxCost")
    ELSE IF ~CandidateExists(data.PubKey)
    THEN Response("CandidateNotFound", "Candidate not found")
    ELSE [Code |-> OK, GasUsed |-> TxGas(tx, data), GasWanted |-> TxGas(tx, data),
          Log |-> ""]

ApplyWithoutStake(ctx, sender, tx, data) ==
    LET c1 == [ctx EXCEPT !.rewardPool = @ + CommissionInBaseCoin(tx, data)]
        c2 == StateDB_SubBalance(c1, sender, tx.GasCoin, Commission(tx, data))
        c4 == Delegate(c2, sender, data.PubKey, data.Coin, data.Stake)
    IN StateDB_SetNonce(c4, sender, tx.Nonce)

ApplyIncrementingNonce(ctx, sender, tx, data) ==
    LET c1 == [ctx EXCEPT !.rewardPool = @ + CommissionInBaseCoin(tx, data)]
        c2 == StateDB_SubBalance(c1, sender, tx.GasCoin, Commission(tx, data))
        c3 == StateDB_SubBalance(c2, sender, data.Coin, data.Stake)
        c4 == Delegate(c3, sender, data.PubKey, data.Coin, data.Stake)
    IN StateDB_SetNonce(c4, sender, c4.w.objs[stateObjects[sender]].data.Nonce + 1)

\* the body of `if !isCheck`
Apply(ctx, sender, tx, data) ==
    LET c1 == [ctx EXCEPT !.rewardPool = @ + CommissionInBaseCoin(tx, data)]
        c2 == StateDB_SubBalance(c1, sender, tx.GasCoin, Commission(tx, data))
        c3 == StateDB_SubBalance(c2, sender, data.Coin, data.Stake)
        c4 == Delegate(c3, sender, data.PubKey, data.Coin, data.Stake)
    IN StateDB_SetNonce(c4, sender, tx.Nonce)

RunAlwaysCommitting(ctx, sender, tx, data, isCheck) ==
    LET r == Validate(ctx, sender, tx, data) IN
    [ctx |-> IF r.Code = OK THEN Apply(ctx, sender, tx, data) ELSE ctx,
     response |-> r]

RunChargingBeforeCandidateCheck(ctx, sender, tx, data, isCheck) ==
    LET r == Validate(ctx, sender, tx, data) IN
    [ctx |-> IF r.Code = OK /\ ~isCheck
             THEN Apply(ctx, sender, tx, data)
             ELSE IF r.Code = "CandidateNotFound" /\ ~isCheck
             THEN [ctx EXCEPT !.rewardPool = @ + CommissionInBaseCoin(tx, data)]
             ELSE ctx,
     response |-> r]

RunTrustingCheck(ctx, sender, tx, data, isCheck) ==
    LET r == Validate(ctx, sender, tx, data) IN
    [ctx |-> IF r.Code = OK /\ ~isCheck THEN Apply(ctx, sender, tx, data) ELSE ctx,
     response |-> IF isCheck /\ r.Code = "CandidateNotFound"
                  THEN [Code |-> OK, GasUsed |-> TxGas(tx, data),
                        GasWanted |-> TxGas(tx, data), Log |-> ""]
                  ELSE r]

\* Run: a failed validation returns at once; the state is written only
\* behind `if !isCheck`; the response is OK with the payload's gas.
Run(ctx, sender, tx, data, isCheck) ==
    LET r == Validate(ctx, sender, tx, data) IN
    [ctx |-> IF r.Code = OK /\ ~isCheck THEN Apply(ctx, sender, tx, data) ELSE ctx,
     response |-> r]

\* --------------------------------------------------------------- the calls
\* What the caller of the last call knows of it.
NoResponse == [Code |-> "none", GasUsed |-> 0, GasWanted |-> 0, Log |-> ""]
NoCall == [op |-> "none", obj |-> 0, amount |-> 0, isCheck |-> FALSE,
           response |-> NoResponse]

\* No codec call has returned yet
NoOut == [value |-> <<>>, err |-> ""]

Call(op, id, amount) ==
    [op |-> op, obj |-> id, amount |-> amount, isCheck |-> FALSE,
     response |-> NoResponse]

\* Execution is synchronous and single-threaded: a call is made when the
\* caller has taken the response of the one before.
Idle == last.op = "none"

Return ==
    /\ ~Idle
    /\ last' = NoCall
    /\ UNCHANGED <<objs, heap, dirtyCalls, created, dbVars, ioVars>>

Commit(w) ==
    /\ Idle
    /\ objs' = w.objs
    /\ heap' = w.heap
    /\ dirtyCalls' = w.dirtyCalls

\* The coins the direct balance calls are made with
LedgerCoins == {BaseCoin, CustomCoin}

\* The Account data of an object, by value (the balances as Balance returns them)
AccountOf(w, id) ==
    [Nonce |-> w.objs[id].data.Nonce,
     Balance |-> [c \in LedgerCoins |-> Balance(w, id, c)]]

Amounts == 0 .. MaxAmount
InBalanceRange(w, id, coinSymbol) ==
    Balance(w, id, coinSymbol) \in (0 - MaxAmount) .. MaxAmount

DoSetBalance ==
    \E id \in DOMAIN objs, c \in LedgerCoins, a \in Amounts :
        /\ Commit(SetBalance(World, id, c, a))
        /\ last' = Call("SetBalance", id, a)
        /\ UNCHANGED <<created, dbVars, ioVars>>

DoAddBalance ==
    \E id \in DOMAIN objs, c \in LedgerCoins, a \in Amounts :
        LET w == AddBalance(World, id, c, a) IN
        /\ InBalanceRange(w, id, c)
        /\ Commit(w)
        /\ last' = Call("AddBalance", id, a)
        /\ UNCHANGED <<created, dbVars, ioVars>>

DoSubBalance ==
    \E id \in DOMAIN objs, c \in LedgerCoins, a \in Amounts :
        LET w == SubBalance(World, id, c, a) IN
        /\ InBalanceRange(w, id, c)
        /\ Commit(w)
        /\ last' = Call("SubBalance", id, a)
        /\ UNCHANGED <<created, dbVars, ioVars>>

DoSetNonce ==
    \E id \in DOMAIN objs, n \in 0 .. MaxNonce :
        /\ Commit(SetNonce(World, id, n))
        /\ last' = Call("SetNonce", id, 0)
        /\ UNCHANGED <<created, dbVars, ioVars>>

DoMarkSuicided ==
    \E id \in DOMAIN objs :
        /\ Commit(markSuicided(World, id))
        /\ last' = Call("markSuicided", id, 0)
        /\ UNCHANGED <<created, dbVars, ioVars>>

DoTouch ==
    \E id \in DOMAIN objs :
        /\ Commit(touch(World, id))
        /\ last' = Call("touch", id, 0)
        /\ UNCHANGED <<created, dbVars, ioVars>>

\* c = o.deepCopy(db, cb), with a callback of its own
DoDeepCopy ==
    \E id \in DOMAIN objs :
        /\ Len(objs) < MaxObjects
        /\ LET w == deepCopy(World, id, Len(objs) + 1) IN
            /\ Commit(w)
            /\ created' = Append(created, [from |-> id, data |-> AccountOf(w, Len(w.objs))])
            /\ last' = Call("deepCopy", id, 0)
        /\ UNCHANGED <<dbVars, ioVars>>

\* ------------------------------------------------ one object and its copies
\* The object is built by newObject either from the zero Account (nil map)
\* or from a decoded one, whose balance map DecodeRLP has made.
InitObject ==
    \E decoded \in BOOLEAN :
        LET w0 == [objs |-> <<>>,
                   heap |-> IF decoded THEN <<[c \in {BaseCoin} |-> 1]>> ELSE <<>>,
                   dirtyCalls |-> <<>>, events |-> <<>>]
            data == IF decoded THEN [Nonce |-> 0, Balance |-> 1] ELSE ZeroAccount
            w == newObject(w0, "a1", data, 1)
        IN /\ objs = w.objs
           /\ heap = w.heap
           /\ dirtyCalls = w.dirtyCalls
           /\ created = <<[from |-> 0, data |-> AccountOf(w, 1)]>>
           /\ stateObjects = [a \in {"a1"} |-> 1]
           /\ stateCoins = <<>>
           /\ candidates = {}
           /\ delegations = <<>>
           /\ rewardPool = 0
           /\ last = NoCall
           /\ wire = <<>>
           /\ out = NoOut
           /\ check = <<>>

NextObject ==
    \/ DoSetBalance
    \/ DoAddBalance
    \/ DoSubBalance
    \/ DoSetNonce
    \/ DoMarkSuicided
    \/ DoTouch
    \/ Return

\* One state object under every sequence of its mutating methods
Spec == InitObject /\ [][NextObject]_vars

NextCopy ==
    \/ NextObject
    \/ DoDeepCopy

\* The same, with deep copies taken at any point
SpecCopy == InitObject /\ [][NextCopy]_vars

\* ---------------------------------------------- transactions on a StateDB
Senders == {"a1"}
Transactions ==
    [Nonce : 0 .. MaxNonce, GasPrice : 0 .. MaxGasPrice, GasCoin : CoinSymbols]
Payloads ==
    [PubKey : PubKeys, Coin : CoinSymbols, Stake : (0 - 1) .. MaxStake]

DoRun ==
    \E sender \in Senders, tx \in Transactions, data \in Payloads, isCheck \in BOOLEAN :
        \E r \in {Run(Ctx, sender, tx, data, isCheck)} :
        /\ Commit(r.ctx.w)
        /\ delegations' = r.ctx.delegations
        /\ rewardPool' = r.ctx.rewardPool
        /\ last' = [op |-> "Run", obj |-> stateObjects[sender], amount |-> 0,
                    isCheck |-> isCheck, response |-> r.response]
        /\ UNCHANGED <<created, stateObjects, stateCoins, candidates, ioVars>>

\* context.SetNonce(addr, nonce), called on its own
DoStateSetNonce ==
    \E addr \in Senders, n \in 0 .. MaxNonce :
        /\ Commit(StateDB_SetNonce(Ctx, addr, n).w)
        /\ last' = Call("SetNonce", stateObjects[addr], 0)
        /\ UNCHANGED <<created, dbVars, ioVars>>

\* A StateDB holding the sender's account, one custom coin and one candidate.
InitRun ==
    LET w0 == [objs |-> <<>>,
               heap |-> <<[c \in {BaseCoin, CustomCoin} |-> InitBalance]>>,
               dirtyCalls |-> <<>>, events |-> <<>>]
        w == newObject(w0, "a1", [Nonce |-> 0, Balance |-> 1], 1)
    IN /\ objs = w.objs
       /\ heap = w.heap
       /\ dirtyCalls = w.dirtyCalls
       /\ created = <<[from |-> 0, data |-> AccountOf(w, 1)]>>
       /\ stateObjects = [a \in Senders |-> 1]
       /\ stateCoins = [c \in {CustomCoin} |->
                            [Volume |-> 3, ReserveBalance |-> 2, Crr |-> 100]]
       /\ candidates = {"pk1"}
       /\ delegations = [k \in Senders \X {"pk1"} \X CoinSymbols |-> 0]
       /\ rewardPool = 0
       /\ last = NoCall
       /\ wire = <<>>
       /\ out = NoOut
       /\ check = <<>>

NextRun ==
    \/ DoRun
    \/ DoStateSetNonce
    \/ Return

SpecRun == InitRun /\ [][NextRun]_vars

\* ------------------------------------------------- the Balances encoding
\* big.NewInt(0).SetBytes(bytes): the bytes read as a big-endian unsigned integer
RECURSIVE SetBytes(_)
SetBytes(bytes) ==
    IF bytes = <<>> THEN 0
    ELSE SetBytes(SubSeq(bytes, 1, Len(bytes) - 1)) * 256 + bytes[Len(bytes)]

\* The less function getCoins gives to sort.Slice
less(a, b) == SetBytes(a) > SetBytes(b)

\* sort.Slice on a short slice: each key moves left past the keys it is less than
RECURSIVE insertionStep(_, _)
insertionStep(sorted, k) ==
    IF sorted = <<>> THEN <<k>>
    ELSE IF less(k, sorted[Len(sorted)])
         THEN insertionStep(SubSeq(sorted, 1, Len(sorted) - 1), k)
                  \o <<sorted[Len(sorted)]>>
         ELSE sorted \o <<k>>

RECURSIVE sortSlice(_)
sortSlice(keys) ==
    IF keys = <<>> THEN <<>>
    ELSE insertionStep(sortSlice(SubSeq(keys, 1, Len(keys) - 1)), keys[Len(keys)])

\* The orders in which `for k, v := range b.Data` may yield the keys of a map
Iterations(keys) ==
    {s \in [1 .. Cardinality(keys) -> keys] : \A i, j \in DOMAIN s : s[i] = s[j] => i = j}

\* b.Data of the Balances holding reference ref (nil has no entries)
Data(w, ref) == IF ref = 0 THEN <<>> ELSE w.heap[ref]

getCoinsUnsorted(data, iteration) ==
    SelectSeq(iteration, LAMBDA k : data[k] > 0)

getCoinsKeepingZero(data, iteration) ==
    sortSlice(SelectSeq(iteration, LAMBDA k : data[k] >= 0))

\* getCoins: the keys of positive amount, in the order range yields them, sorted
getCoins(data, iteration) ==
    sortSlice(SelectSeq(iteration, LAMBDA k : data[k] > 0))

\* rlp's encoding of a non-negative *big.Int: its big-endian bytes, none for 0
RECURSIVE BigIntBytes(_)
BigIntBytes(n) ==
    IF n = 0 THEN <<>> ELSE BigIntBytes(n \div 256) \o <<n % 256>>

\* rlp.Encode(w, balances): the list of the pairs, each the list (coin, amount)
rlpEncode(balances) ==
    [i \in DOMAIN balances |-> <<balances[i].Coin, BigIntBytes(balances[i].Amount)>>]

\* s.Decode(&balances): the pairs of the list, or an error (a *big.Int with a
\* leading zero byte is refused) and then no pair at all
rlpDecode(stream) ==
    IF \E i \in DOMAIN stream : stream[i][2] # <<>> /\ stream[i][2][1] = 0
    THEN [balances |-> <<>>, err |-> "rlp: non-canonical integer"]
    ELSE [balances |-> [i \in DOMAIN stream |->
                            [Coin |-> stream[i][1], Amount |-> SetBytes(stream[i][2])]],
          err |-> ""]

\* func (b Balances) EncodeRLP(w io.Writer) error: what is written to w
EncodeRLP(w, ref, iteration) ==
    LET data == Data(w, ref)
        coins == getCoins(data, iteration)
    IN rlpEncode([i \in DOMAIN coins |-> [Coin |-> coins[i], Amount |-> data[coins[i]]]])

RECURSIVE assignFirst(_, _)
assignFirst(m, balances) ==
    IF balances = <<>> THEN m
    ELSE LET v == balances[1] IN
         assignFirst(IF v.Coin \in DOMAIN m THEN m ELSE mapSet(m, v.Coin, v.Amount),
                     Tail(balances))

\* for _, v := range balances { b.Data[v.Coin] = v.Amount }
RECURSIVE assignAll(_, _)
assignAll(m, balances) ==
    IF balances = <<>> THEN m
    ELSE assignAll(mapSet(m, balances[1].Coin, balances[1].Amount), Tail(balances))

\* func (b *Balances) DecodeRLP(s *rlp.Stream) error
DecodeRLP(w, ref, stream) ==
    LET w1 == IF ref = 0 THEN makeMap(w) ELSE w
        r == IF ref = 0 THEN Len(w1.heap) ELSE ref
        d == rlpDecode(stream)
    IN IF d.err # ""
       THEN [w |-> w1, ref |-> r, err |-> d.err]
       ELSE [w |-> [w1 EXCEPT !.heap[r] = assignAll(@, d.balances)],
             ref |-> r, err |-> ""]

\* The Balances maps and the streams the codec is run on
WireAmounts == (0 - 1) .. MaxWireAmount
BalancesMaps == UNION {[keys -> WireAmounts] : keys \in SUBSET CoinSymbols}
WirePairs ==
    LedgerCoins \X ({BigIntBytes(n) : n \in 0 .. MaxWireAmount} \cup {<<0>>})
Streams == UNION {[1 .. n -> WirePairs] : n \in 0 .. MaxStreamLen}

\* b.EncodeRLP(w) on one of the Balances alive
DoEncodeRLP ==
    \E ref \in DOMAIN heap :
        \E iteration \in Iterations(DOMAIN heap[ref]) :
        /\ wire' = EncodeRLP(World, ref, iteration)
        /\ out' = [value |-> ref, err |-> ""]
        /\ last' = Call("EncodeRLP", ref, 0)
        /\ UNCHANGED <<objs, heap, dirtyCalls, created, dbVars, check>>

\* b.DecodeRLP(s) of the stream on the wire, b a fresh Balances (nil Data,
\* beside the first one) or one alive
DoDecodeRLP ==
    \E ref \in {0} \cup DOMAIN heap :
        \E r \in {DecodeRLP(World, ref, wire)} :
        /\ ref = 0 => Len(heap) = 1
        /\ heap' = r.w.heap
        /\ out' = [value |-> r.ref, err |-> r.err]
        /\ last' = Call("DecodeRLP", ref, 0)
        /\ UNCHANGED <<objs, dirtyCalls, created, dbVars, wire, check>>

\* One Balances with any contents and nothing on the wire, or an empty one and
\* any stream on the wire.
InitCodec ==
    /\ \/ heap \in {<<m>> : m \in BalancesMaps} /\ wire = <<>>
       \/ heap = <<(<<>>)>> /\ wire \in Streams
    /\ objs = <<>>
    /\ dirtyCalls = <<>>
    /\ created = <<>>
    /\ stateObjects = <<>>
    /\ stateCoins = <<>>
    /\ candidates = {}
    /\ delegations = <<>>
    /\ rewardPool = 0
    /\ last = NoCall
    /\ out = NoOut
    /\ check = <<>>

NextCodec ==
    \/ DoEncodeRLP
    \/ DoDecodeRLP

SpecCodec == InitCodec /\ [][NextCodec]_vars

\* ----------------------------------------------------------- signed checks
\* A nil pointer; a non-nil *big.Int or *Check is the one-element tuple of
\* what it points to.
Nil == <<>>

ErrInvalidSig == "invalid transaction v, r, s values"

\* type Check struct, in the order of its fields
Fields == <<"Nonce", "DueBlock", "Coin", "Value", "Lock", "V", "R", "S">>
FieldIndex(f) == CHOOSE i \in DOMAIN Fields : Fields[i] = f

\* var check Check
ZeroCheck ==
    [Nonce |-> 0, DueBlock |-> 0, Coin |-> <<0, 0>>, Value |-> Nil, Lock |-> Nil,
     V |-> Nil, R |-> Nil, S |-> Nil]

\* The items of an encoded list: a byte string, or a nested list
StringItem(bytes) == [kind |-> "string", bytes |-> bytes]
ListItem == [kind |-> "list", bytes |-> <<>>]

\* Whether rlp can decode the item into the field, and what it decodes it to
Decodable(field, item) ==
    /\ item.kind = "string"
    /\ field = "Coin" => Len(item.bytes) = Len(BaseCoin)
decodeItem(field, item) ==
    IF field = "Coin" THEN item.bytes
    ELSE IF field \in {"Nonce", "DueBlock"} THEN SetBytes(item.bytes)
    ELSE <<SetBytes(item.bytes)>>

\* rlp.Decode(bytes.NewReader(buf), &check): the fields are filled in order
\* until the list ends or an item cannot be decoded; a field not reached keeps
\* its zero value, and the error says whether the whole list was consumed.
rlpDecodeCheck(buf) ==
    LET reached(k) == k <= Len(buf) /\ \A i \in 1 .. k : Decodable(Fields[i], buf[i])
    IN [check |-> [f \in DOMAIN ZeroCheck |->
                       IF reached(FieldIndex(f))
                       THEN decodeItem(f, buf[FieldIndex(f)])
                       ELSE ZeroCheck[f]],
        err |-> IF reached(Len(Fields)) /\ Len(buf) = Len(Fields)
                THEN "" ELSE "rlp: input does not match Check"]

DecodeFromBytesCheckingOnlyV(buf) ==
    LET c == rlpDecodeCheck(buf).check IN
    IF c.V = Nil
    THEN [check |-> Nil, err |-> "incorrect tx signature"]
    ELSE [check |-> <<c>>, err |-> ""]

\* func DecodeFromBytes(buf []byte) (*Check, error): the error of rlp.Decode
\* is dropped
DecodeFromBytes(buf) ==
    LET c == rlpDecodeCheck(buf).check IN
    IF c.S = Nil \/ c.R = Nil \/ c.V = Nil
    THEN [check |-> Nil, err |-> "incorrect tx signature"]
    ELSE [check |-> <<c>>, err |-> ""]

\* sha3 Keccak-256: 32 bytes that depend on every byte of the input
RECURSIVE digest(_)
digest(bytes) ==
    IF bytes = <<>> THEN 7
    ELSE (digest(SubSeq(bytes, 1, Len(bytes) - 1)) * 31 + bytes[Len(bytes)] + 1) % 251
Keccak256(bytes) == [i \in 1 .. 32 |-> (digest(bytes) + 7 * i) % 256]

\* rlpHash of {Nonce, DueBlock, Coin, Value, Lock}
Hash(c) ==
    Keccak256(BigIntBytes(c.Nonce) \o BigIntBytes(c.DueBlock) \o c.Coin
              \o (IF c.Value = Nil THEN <<>> ELSE BigIntBytes(c.Value[1]))
              \o (IF c.Lock = Nil THEN <<>> ELSE BigIntBytes(c.Lock[1])))

\* The order of the curve's group; a small odd number stands for secp256k1's
secp256k1N == 5
secp256k1halfN == secp256k1N \div 2

\* crypto.ValidateSignatureValues(v, r, s)
ValidateSignatureValues(v, r, s) ==
    /\ r >= 1
    /\ s >= 1
    /\ s <= secp256k1halfN
    /\ r < secp256k1N
    /\ s < secp256k1N
    /\ v \in {0, 1}

\* What crypto.Ecrecover may return for a hash and a signature: an error, or
\* a key that is empty, compressed (tag 2) or uncompressed (tag 4); three
\* bytes stand for the 65 of a key.
Recoveries ==
    {[pub |-> <<>>, err |-> "recovery failed"],
     [pub |-> <<>>, err |-> ""],
     [pub |-> <<2, 1, 2>>, err |-> ""],
     [pub |-> <<4, 1, 2>>, err |-> ""],
     [pub |-> <<4, 2, 1>>, err |-> ""]}
Ecrecover(hash, sig, rec) == rec

\* (*big.Int).BitLen
RECURSIVE BitLen(_)
BitLen(n) == IF n = 0 THEN 0 ELSE 1 + BitLen(n \div 2)

\* copy(sig[32-len(r):32], r): the bytes, left-padded with zeros to 32
LeftPad32(bytes) == [i \in 1 .. 32 |->
                        IF i <= 32 - Len(bytes) THEN 0 ELSE bytes[i - (32 - Len(bytes))]]

ZeroAddress == [i \in 1 .. 20 |-> 0]

recoverPlainWithoutBitLen(sighash, R, S, Vb, rec) ==
    LET V == (Vb - 27) % 256
        sig == LeftPad32(BigIntBytes(R)) \o LeftPad32(BigIntBytes(S)) \o <<V>>
        e == Ecrecover(sighash, sig, rec)
    IN IF ~ValidateSignatureValues(V, R, S)
       THEN [addr |-> ZeroAddress, err |-> ErrInvalidSig]
       ELSE IF e.err # ""
       THEN [addr |-> ZeroAddress, err |-> e.err]
       ELSE IF Len(e.pub) = 0 \/ e.pub[1] # 4
       THEN [addr |-> ZeroAddress, err |-> "invalid public key"]
       ELSE [addr |-> SubSeq(Keccak256(Tail(e.pub)), 13, 32), err |-> ""]

\* func recoverPlain(sighash, R, S, Vb) (types.Address, error); rec is what
\* crypto.Ecrecover returns for the hash and the signature.
\* byte(Vb.Uint64() - 27) wraps around below 27.
recoverPlain(sighash, R, S, Vb, rec) ==
    IF BitLen(Vb) > 8
    THEN [addr |-> ZeroAddress, err |-> ErrInvalidSig]
    ELSE LET V == (Vb - 27) % 256
             sig == LeftPad32(BigIntBytes(R)) \o LeftPad32(BigIntBytes(S)) \o <<V>>
             e == Ecrecover(sighash, sig, rec)
         IN IF ~ValidateSignatureValues(V, R, S)
            THEN [addr |-> ZeroAddress, err |-> ErrInvalidSig]
            ELSE IF e.err # ""
            THEN [addr |-> ZeroAddress, err |-> e.err]
            ELSE IF Len(e.pub) = 0 \/ e.pub[1] # 4
            THEN [addr |-> ZeroAddress, err |-> "invalid public key"]
            ELSE [addr |-> SubSeq(Keccak256(Tail(e.pub)), 13, 32), err |-> ""]

\* func (check *Check) Sender() (types.Address, error)
Sender(c, rec) == recoverPlain(Hash(c), c.R[1], c.S[1], c.V[1], rec)

\* The buffers DecodeFromBytes is given: the encoding of a check with any
\* signature values, cut off after any item, or with one item too many
SigV == {26, 27, 28, 29, 283}
VItems == {StringItem(BigIntBytes(v)) : v \in SigV} \cup {ListItem}
RSItems == {StringItem(BigIntBytes(n)) : n \in 0 .. secp256k1N} \cup {ListItem}
HeadItems ==
    <<StringItem(BigIntBytes(1)), StringItem(BigIntBytes(2)), StringItem(BaseCoin),
      StringItem(BigIntBytes(3)), StringItem(BigIntBytes(4))>>
FullBuffers == {HeadItems \o <<v, r, s>> : v \in VItems, r \in RSItems, s \in RSItems}
Buffers ==
    {SubSeq(b, 1, n) : b \in FullBuffers, n \in 0 .. Len(Fields)}
        \cup {b \o <<StringItem(<<>>)>> : b \in FullBuffers}

DoDecodeFromBytes ==
    \E r \in {DecodeFromBytes(wire)} :
        /\ check' = r.check
        /\ out' = [value |-> r.check, err |-> r.err]
        /\ last' = Call("DecodeFromBytes", 0, 0)
        /\ UNCHANGED <<objs, heap, dirtyCalls, created, dbVars, wire>>

\* check.Sender() on the check DecodeFromBytes returned
DoSender ==
    /\ check # Nil
    /\ \E rec \in Recoveries :
        \E r \in {Sender(check[1], rec)} :
            /\ out' = [value |-> r.addr, err |-> r.err]
            /\ last' = Call("Sender", 0, 0)
    /\ UNCHANGED <<objs, heap, dirtyCalls, created, dbVars, wire, check>>

InitCheck ==
    /\ wire \in Buffers
    /\ check = Nil
    /\ out = NoOut
    /\ last = NoCall
    /\ objs = <<>>
    /\ heap = <<>>
    /\ dirtyCalls = <<>>
    /\ created = <<>>
    /\ stateObjects = <<>>
    /\ stateCoins = <<>>
    /\ candidates = {}
    /\ delegations = <<>>
    /\ rewardPool = 0

NextCheck ==
    \/ DoDecodeFromBytes
    \/ DoSender

SpecCheck == InitCheck /\ [][NextCheck]_vars

\* ================================================================= claims
\* The claims about Run and SetNonce are stated of every call that can be made:
\* in every reachable state that awaits a call (Idle), for every argument.
\* The account of the sender's state object, as the StateDB's readers see it
NonceOf(ctx, addr) == ctx.w.objs[stateObjects[addr]].data.Nonce
Delegated(ctx, sender, data) ==
    IF <<sender, data.PubKey, data.Coin>> \in DOMAIN ctx.delegations
    THEN ctx.delegations[<<sender, data.PubKey, data.Coin>>]
    ELSE 0

\* What the commission of a transaction is to be, from the transaction and
\* the gas coin's record alone
BaseUnitCommission(tx) == tx.GasPrice * DelegateTx * CommissionMultiplier
ExpectedCommission(tx) ==
    IF tx.GasCoin = BaseCoin
    THEN BaseUnitCommission(tx)
    ELSE (BaseUnitCommission(tx) * stateCoins[tx.GasCoin].Volume)
             \div stateCoins[tx.GasCoin].ReserveBalance
CommissionDefined(tx) ==
    \/ tx.GasCoin = BaseCoin
    \/ /\ tx.GasCoin \in DOMAIN stateCoins
       /\ stateCoins[tx.GasCoin].ReserveBalance >= BaseUnitCommission(tx)

\* C1: over any sequence of SetBalance, AddBalance, SubBalance, SetNonce,
\* markSuicided and touch on an object created with a dirty callback, the
\* callback is invoked at most once.
C1_DirtyCallbackAtMostOnce ==
    \A cb \in DOMAIN dirtyCalls : dirtyCalls[cb] <= 1

\* C1 witness: every kind of mutation has acted on the object, one call so far
C1_Witness ==
    /\ dirtyCalls[1] = 1
    /\ objs[1].onDirty = 0
    /\ objs[1].touched
    /\ objs[1].suicided
    /\ objs[1].data.Nonce = 1
    /\ Balance(World, 1, CustomCoin) = 1
    /\ last.op = "SubBalance" /\ last.amount > 0

\* C2 (as claimed): after c = o.deepCopy(cb), no SetBalance, AddBalance or
\* SubBalance on c changes what o.Balance returns for any coin, and none on o
\* changes what c.Balance returns.
C2_DeepCopyIsolated ==
    [][ last'.op \in {"SetBalance", "AddBalance", "SubBalance"} =>
          \A o \in DOMAIN objs, c \in DOMAIN objs :
              (created[c].from = o /\ last'.obj \in {o, c}) =>
                  \A other \in {o, c} \ {last'.obj}, k \in LedgerCoins :
                      Balance(World', other, k) = Balance(World, other, k) ]_vars

\* C3: Run with isCheck = true leaves the sender's balances and nonce, the
\* reward pool and the delegations as they were, whatever it answers, and
\* run again on the state it leaves it answers the same.
C3_CheckRunChangesNothing ==
    Idle =>
    \A sender \in Senders, tx \in Transactions, data \in Payloads :
        \A r \in {Run(Ctx, sender, tx, data, TRUE)} :
            /\ r.ctx = Ctx
            /\ Run(r.ctx, sender, tx, data, TRUE).response = r.response

\* C3 witness: a validate-only run has passed every validation
C3_Witness ==
    /\ last.op = "Run"
    /\ last.isCheck
    /\ last.response.Code = OK

\* C4: a Run that answers anything but OK, with isCheck true or false, has
\* changed nothing, and its code is one of the five failure codes.
C4_FailureChangesNothing ==
    Idle =>
    \A sender \in Senders, tx \in Transactions, data \in Payloads, isCheck \in BOOLEAN :
        \A r \in {Run(Ctx, sender, tx, data, isCheck)} :
            r.response.Code # OK =>
                /\ r.ctx = Ctx
                /\ r.response.Code \in {"CoinNotExists", "StakeShouldBePositive",
                                        "CoinReserveNotSufficient", "InsufficientFunds",
                                        "CandidateNotFound"}

\* C4 witness: a committing run has failed at the last validation
C4_Witness ==
    /\ last.op = "Run"
    /\ ~last.isCheck
    /\ last.response.Code = "CandidateNotFound"

\* C5: a committing Run that passes every validation adds the base-unit
\* commission to the reward pool, takes the commission (converted for a gas
\* coin other than the base coin) from the gas-coin balance and the stake from
\* the stake-coin balance (both from the one balance when the coins coincide),
\* records the delegation, sets the nonce to tx.Nonce and answers OK with
\* GasUsed = GasWanted = Gas().
C5_CommitEffects ==
    Idle =>
    \A sender \in Senders, tx \in Transactions, data \in Payloads :
        \A r \in {Run(Ctx, sender, tx, data, FALSE)} :
            r.response.Code = OK =>
                /\ r.ctx.rewardPool = rewardPool + BaseUnitCommission(tx)
                /\ StateDB_GetBalance(r.ctx, sender, tx.GasCoin) =
                       StateDB_GetBalance(Ctx, sender, tx.GasCoin) - ExpectedCommission(tx)
                           - (IF data.Coin = tx.GasCoin THEN data.Stake ELSE 0)
                /\ StateDB_GetBalance(r.ctx, sender, data.Coin) =
                       StateDB_GetBalance(Ctx, sender, data.Coin) - data.Stake
                           - (IF data.Coin = tx.GasCoin THEN ExpectedCommission(tx) ELSE 0)
                /\ Delegated(r.ctx, sender, data) = Delegated(Ctx, sender, data) + data.Stake
                /\ NonceOf(r.ctx, sender) = tx.Nonce
                /\ r.response.GasUsed = DelegateTx
                /\ r.response.GasWanted = DelegateTx

\* C5 witness: a committing run has paid a converted commission and a stake
C5_Witness ==
    /\ last.op = "Run"
    /\ ~last.isCheck
    /\ last.response.Code = OK
    /\ rewardPool > 0
    /\ Balance(World, 1, CustomCoin) = InitBalance - 3
    /\ Balance(World, 1, BaseCoin) < InitBalance

\* C6: for the same state, sender, transaction and payload Run answers the
\* same (Code, GasUsed, GasWanted) with isCheck = true as with isCheck = false.
C6_ResponseIndependentOfIsCheck ==
    Idle =>
    \A sender \in Senders, tx \in Transactions, data \in Payloads :
        \A r \in {Run(Ctx, sender, tx, data, TRUE).response} :
        \A q \in {Run(Ctx, sender, tx, data, FALSE).response} :
            /\ r.Code = q.Code
            /\ r.GasUsed = q.GasUsed
            /\ r.GasWanted = q.GasWanted

\* C6 witness: after a commit, a validate-only run has been refused
C6_Witness ==
    /\ last.op = "Run"
    /\ last.isCheck
    /\ last.response.Code = "CandidateNotFound"
    /\ rewardPool > 0

\* The step is a call of Run with these arguments
RunStep(sender, tx, data, isCheck) ==
    /\ Idle
    /\ last'.op = "Run"
    /\ last'.isCheck = isCheck
    /\ \E r \in {Run(Ctx, sender, tx, data, isCheck)} :
        /\ last'.response = r.response
        /\ World' = r.ctx.w
        /\ delegations' = r.ctx.delegations
        /\ rewardPool' = r.ctx.rewardPool

\* C7 (as claimed): when the gas coin or the stake coin does not exist, Run
\* answers CoinNotExists.  Stated of positive stakes only, so that no answer
\* at the stake check, which precedes every use of the stake coin, refutes it.
C7_MissingCoinRefused ==
    [][ \A sender \in Senders, tx \in Transactions, data \in Payloads, isCheck \in BOOLEAN :
          ( /\ RunStep(sender, tx, data, isCheck)
            /\ data.Stake > 0
            /\ (~CoinExists(tx.GasCoin) \/ ~CoinExists(data.Coin)) ) =>
              last'.response.Code = "CoinNotExists" ]_vars

\* C8: when stake coin and gas coin coincide and the sender's balance in the
\* coin covers the commission Run computes and covers the stake but not their
\* sum, Run answers InsufficientFunds and changes nothing.
C8_CombinedCostRefused ==
    Idle =>
    \A sender \in Senders, tx \in Transactions, data \in Payloads, isCheck \in BOOLEAN :
        ( /\ data.Coin = tx.GasCoin
          /\ CommissionDefined(tx)
          /\ StateDB_GetBalance(Ctx, sender, tx.GasCoin) >= ExpectedCommission(tx)
          /\ StateDB_GetBalance(Ctx, sender, tx.GasCoin) >= data.Stake
          /\ StateDB_GetBalance(Ctx, sender, tx.GasCoin)
                < data.Stake + ExpectedCommission(tx) ) =>
            \A r \in {Run(Ctx, sender, tx, data, isCheck)} :
                /\ r.response.Code = "InsufficientFunds"
                /\ r.ctx = Ctx

\* C8 witness: a run has been refused at the combined check
C8_Witness ==
    /\ last.op = "Run"
    /\ last.response.Code = "InsufficientFunds"
    /\ last.response.Log = "Wanted totalTxCost"

\* C9: when the gas coin exists and the stake is zero or negative, Run answers
\* StakeShouldBePositive and changes no balance, with isCheck true and false.
C9_NonPositiveStakeRefused ==
    Idle =>
    \A sender \in Senders, tx \in Transactions, data \in Payloads, isCheck \in BOOLEAN :
        (CoinExists(tx.GasCoin) /\ data.Stake <= 0) =>
            \A r \in {Run(Ctx, sender, tx, data, isCheck)} :
                /\ r.response.Code = "StakeShouldBePositive"
                /\ r.ctx.w.heap = heap
                /\ r.ctx = Ctx

\* C9 witness: a committing run has been refused for its stake
C9_Witness ==
    /\ last.op = "Run"
    /\ ~last.isCheck
    /\ last.response.Code = "StakeShouldBePositive"

\* C10 (as claimed): every successful committing Run and every SetNonce leaves
\* the account with a nonce strictly greater than the one it held before.
C10_NonceStrictlyIncreasing ==
    [][ ( \/ last'.op = "SetNonce"
          \/ (last'.op = "Run" /\ ~last'.isCheck /\ last'.response.Code = OK) )
        => objs'[1].data.Nonce > objs[1].data.Nonce ]_vars

\* C10 (amended): a successful committing Run leaves the account with the
\* nonce tx.Nonce and SetNonce(n) with the nonce n, whatever it held before.
C10_NonceIsTheOneGiven ==
    Idle =>
    /\ \A sender \in Senders, tx \in Transactions, data \in Payloads :
        \A r \in {Run(Ctx, sender, tx, data, FALSE)} :
            r.response.Code = OK => NonceOf(r.ctx, sender) = tx.Nonce
    /\ \A addr \in Senders, n \in 0 .. MaxNonce :
        NonceOf(StateDB_SetNonce(Ctx, addr, n), addr) = n

\* C10 witness: a committing run has succeeded and left the nonce at zero,
\* not above what the account held
C10_Witness ==
    /\ last.op = "Run"
    /\ ~last.isCheck
    /\ last.response.Code = OK
    /\ objs[1].data.Nonce = 0

\* ------------------------------------------------------------------------
\* The claims about the Balances encoding are stated of every Balances alive
\* and of every order in which range may yield the keys of its map.
\* The entries of a map whose amount is not zero
NonZeroEntries(m) == {<<c, m[c]>> : c \in {k \in DOMAIN m : m[k] # 0}}

\* C11: whatever order the map yields its keys in, EncodeRLP lists the coins
\* in strictly descending order of the symbol's bytes read as a big-endian
\* unsigned integer, so every order yields the same encoding.
C11_EncodingStrictlyDescending ==
    \A ref \in DOMAIN heap :
        \A iteration \in Iterations(DOMAIN heap[ref]) :
            \A enc \in {EncodeRLP(World, ref, iteration)} :
                /\ \A i, j \in DOMAIN enc :
                       i < j => SetBytes(enc[i][1]) > SetBytes(enc[j][1])
                /\ \A other \in Iterations(DOMAIN heap[ref]) :
                       EncodeRLP(World, ref, other) = enc

\* An encoding of all three coins has been written
C11_Witness ==
    /\ last.op = "EncodeRLP"
    /\ Len(wire) = Cardinality(CoinSymbols)

Occurrences(stream, c) == {i \in DOMAIN stream : stream[i][1] = c}
LastOccurrence(stream, c) ==
    CHOOSE i \in Occurrences(stream, c) : \A j \in Occurrences(stream, c) : j <= i

\* C18: DecodeRLP accepts the pairs of a well-formed stream in any order, and
\* the map then holds, for every coin of the stream, the amount of the coin's
\* last occurrence (and for every other coin what it held before).
C18_DecodeLastOccurrenceWins ==
    \A ref \in {0} \cup DOMAIN heap :
        \A r \in {DecodeRLP(World, ref, wire)} :
            /\ r.err = "" <=> rlpDecode(wire).err = ""
            /\ r.err = "" =>
                   \A c \in CoinSymbols :
                       IF Occurrences(wire, c) # {}
                       THEN /\ c \in DOMAIN r.w.heap[r.ref]
                            /\ r.w.heap[r.ref][c] = SetBytes(wire[LastOccurrence(wire, c)][2])
                       ELSE /\ c \in DOMAIN r.w.heap[r.ref] <=> c \in DOMAIN Data(World, ref)
                            /\ c \in DOMAIN Data(World, ref) =>
                                   r.w.heap[r.ref][c] = Data(World, ref)[c]

\* A stream in ascending order of the coins, one coin twice with different
\* amounts, has been decoded
C18_Witness ==
    /\ last.op = "DecodeRLP"
    /\ out.err = ""
    /\ Len(wire) = 3
    /\ SetBytes(wire[1][1]) < SetBytes(wire[2][1])
    /\ wire[3][1] = wire[1][1]
    /\ wire[3][2] # wire[1][2]
    /\ heap[out.value][wire[1][1]] = SetBytes(wire[3][2])

\* ------------------------------------------------------------------------
\* Whether the buffer carries all of V, R and S (and what comes before them)
SignaturePresent(buf) ==
    /\ Len(buf) >= Len(Fields)
    /\ \A i \in DOMAIN Fields : Decodable(Fields[i], buf[i])

\* C13: DecodeFromBytes returns a nil check and an error for a buffer in
\* which one of V, R, S is absent, and a non-nil check without an error
\* exactly when all three are present after decoding (the check then holds
\* what was decoded).
C13_IncompleteSignatureRefused ==
    \A r \in {DecodeFromBytes(wire)} :
        /\ r.check = Nil <=> r.err # ""
        /\ ~SignaturePresent(wire) => r.check = Nil /\ r.err # ""
        /\ r.check # Nil <=>
               \A f \in {"V", "R", "S"} : rlpDecodeCheck(wire).check[f] # Nil
        /\ r.check # Nil => r.check[1] = rlpDecodeCheck(wire).check

\* A buffer that ends after V and R has been refused
C13_Witness ==
    /\ last.op = "DecodeFromBytes"
    /\ Len(wire) = Len(Fields) - 1
    /\ \A i \in DOMAIN wire : wire[i].kind = "string"
    /\ check = Nil
    /\ out.err = "incorrect tx signature"

\* The signature values recoverPlain refuses before the recovery
BadSignatureValues(c) ==
    \/ c.V[1] >= 256
    \/ ~ValidateSignatureValues((c.V[1] - 27) % 256, c.R[1], c.S[1])
BadPublicKey(rec) == rec.pub = <<>> \/ rec.pub[1] # 4
AddressOf(pub) == [i \in 1 .. 20 |-> Keccak256(Tail(pub))[12 + i]]

\* C14 as stated: in each of the four cases Sender fails with InvalidSignature,
\* and in every other case it returns the address of the recovered key.
C14_EveryFailureIsInvalidSignature ==
    [][\A rec \in Recoveries :
         (/\ check # Nil
          /\ last'.op = "Sender"
          /\ out' = [value |-> Sender(check[1], rec).addr,
                     err |-> Sender(check[1], rec).err])
         => IF \/ BadSignatureValues(check[1])
               \/ rec.err # ""
               \/ BadPublicKey(rec)
            THEN out'.err = ErrInvalidSig
            ELSE out'.err = "" /\ out'.value = AddressOf(rec.pub)]_vars

\* C14, amended: Sender fails with InvalidSignature when V needs more than 8
\* bits or (V-27, R, S) fails validation; with the recovery's own error when
\* the recovery fails; with the error "invalid public key" when the recovered
\* key is empty or does not start with 4; and otherwise returns the last 20
\* bytes of the hash of the key without its first byte.
C14_SenderErrorByCase ==
    check # Nil =>
        \A rec \in Recoveries :
            \A r \in {Sender(check[1], rec)} :
                IF BadSignatureValues(check[1])
                THEN r.err = ErrInvalidSig
                ELSE IF rec.err # ""
                THEN r.err = rec.err /\ r.err # ErrInvalidSig
                ELSE IF BadPublicKey(rec)
                THEN r.err = "invalid public key"
                ELSE r.err = "" /\ r.addr = AddressOf(rec.pub)

\* Sender has returned an address for a check with valid signature values
C14_Witness ==
    /\ last.op = "Sender"
    /\ check # Nil
    /\ ~BadSignatureValues(check[1])
    /\ out.err = ""
    /\ \E rec \in Recoveries : ~BadPublicKey(rec) /\ out.value = AddressOf(rec.pub)

\* ------------------------------------------------------------------------
\* What a transaction fails of, from the arguments and the StateDB's records
FundsInsufficient(sender, tx, data) ==
    \/ StateDB_GetBalance(Ctx, sender, tx.GasCoin) < ExpectedCommission(tx)
    \/ StateDB_GetBalance(Ctx, sender, data.Coin) < data.Stake
    \/ /\ data.Coin = tx.GasCoin
       /\ StateDB_GetBalance(Ctx, sender, tx.GasCoin) < data.Stake + ExpectedCommission(tx)

\* C15: Run reports the first validation that fails, in the order gas coin
\* missing, stake not positive, reserve not sufficient (looked at only for a
\* gas coin other than the base coin), funds insufficient, candidate not
\* registered; and it answers OK when none fails.
C15_FirstFailureReported ==
    Idle =>
    \A sender \in Senders, tx \in Transactions, data \in Payloads, isCheck \in BOOLEAN :
        \A code \in {Run(Ctx, sender, tx, data, isCheck).response.Code} :
            IF ~CoinExists(tx.GasCoin) THEN code = "CoinNotExists"
            ELSE IF data.Stake <= 0 THEN code = "StakeShouldBePositive"
            ELSE IF ~CommissionDefined(tx)
            THEN code = "CoinReserveNotSufficient" /\ tx.GasCoin # BaseCoin
            ELSE IF FundsInsufficient(sender, tx, data) THEN code = "InsufficientFunds"
            ELSE IF ~CandidateExists(data.PubKey) THEN code = "CandidateNotFound"
            ELSE code = OK

\* C15 witness: a run paid in the custom coin has been refused for the
\* coin's reserve
C15_Witness ==
    /\ last.op = "Run"
    /\ last.response.Code = "CoinReserveNotSufficient"
    /\ last.response.Log = "Coin reserve balance is not sufficient"

\* The events of a method's run that are balance-change notifications
Emitted(events) == SelectSeq(events, LAMBDA e : e[1] = "emit")

\* C16: SetBalance emits the notification (address, coin, amount), then
\* writes the amount, then fires the dirty callback if it is still to fire;
\* AddBalance and SubBalance with a non-zero amount emit exactly one
\* notification, carrying old + amount and old - amount, and store that
\* balance, SubBalance also when it is below zero.
C16_NotificationThenWrite ==
    \A id \in DOMAIN objs, c \in LedgerCoins, a \in Amounts :
        \A old \in {Balance(World, id, c)} :
            /\ \A w \in {SetBalance(World, id, c, a)} :
                   /\ w.events =
                          <<(<<"emit", objs[id].address, c, a>>), (<<"write", c, a>>)>>
                              \o (IF objs[id].onDirty # 0
                                  THEN <<(<<"dirty", objs[id].address>>)>>
                                  ELSE <<>>)
                   /\ Balance(w, id, c) = a
                   /\ w.objs[id].onDirty = 0
            /\ a # 0 =>
                   /\ \A w \in {AddBalance(World, id, c, a)} :
                          /\ Emitted(w.events) = <<(<<"emit", objs[id].address, c, old + a>>)>>
                          /\ Balance(w, id, c) = old + a
                   /\ \A w \in {SubBalance(World, id, c, a)} :
                          /\ Emitted(w.events) = <<(<<"emit", objs[id].address, c, old - a>>)>>
                          /\ Balance(w, id, c) = old - a

\* C16 witness: SubBalance has taken more than the object held
C16_Witness ==
    /\ last.op = "SubBalance"
    /\ last.amount > 0
    /\ \E c \in LedgerCoins : Balance(World, last.obj, c) < 0
    /\ dirtyCalls[last.obj] = 1

\* C17: AddBalance(coin, 0) and SubBalance(coin, 0) change nothing: no
\* balance, no flag, no callback, no count of its invocations, and they emit
\* nothing.
C17_ZeroAmountIsNoOp ==
    \A id \in DOMAIN objs, c \in LedgerCoins :
        /\ AddBalance(World, id, c, 0) = World
        /\ SubBalance(World, id, c, 0) = World

\* C17 witness: AddBalance with amount zero has been called on an object that
\* holds nothing, and its callback is still to fire
C17_Witness ==
    /\ last.op = "AddBalance"
    /\ last.amount = 0
    /\ objs[last.obj].onDirty # 0
    /\ dirtyCalls[last.obj] = 0
    /\ ~objs[last.obj].touched
    /\ AccountOf(World, last.obj) = created[last.obj].data
    /\ \A c \in LedgerCoins : Balance(World, last.obj, c) = 0

\* C19: every balance of every account is non-negative, after any sequence
\* of Run calls from the genesis state.
C19_BalancesNonNegative ==
    \A ref \in DOMAIN heap :
        \A c \in DOMAIN heap[ref] : heap[ref][c] >= 0

\* C19 witness: a committing run has taken stake and commission from the one
\* balance and left nothing of it
C19_Witness ==
    /\ last.op = "Run"
    /\ ~last.isCheck
    /\ last.response.Code = OK
    /\ rewardPool > 0
    /\ Balance(World, 1, BaseCoin) = 0
    /\ Balance(World, 1, CustomCoin) = InitBalance

\* C20 (as claimed): an object whose nonce or balances differ from what they
\* were when it was created has had its callback invoked, exactly once.
C20_ChangeNotifiesOwner ==
    \A id \in DOMAIN objs :
        AccountOf(World, id) # created[id].data => dirtyCalls[id] = 1

====
